---- MODULE Spec2Model ----
(***************************************************************************)
(* Model of python/pyspark/sql/streaming/stateful_processor.py:            *)
(* ValueState, ListState, StatefulProcessorHandle and the lifecycle of a   *)
(* StatefulProcessor.  The StateApiClient (state_api_client.py) and the    *)
(* engine that drives init / handleInputRows / close are not part of the   *)
(* file; they are modelled from the design document.                       *)
(***************************************************************************)
EXTENDS Integers, Sequences, FiniteSets, TLC

VARIABLES
    handle,      \* the StatefulProcessorHandle object of the task
    phase,       \* lifecycle of the processor: Uninitialized, Initialized, Closed
    boundKey,    \* grouping key the engine has bound, or NoKey
    registered,  \* StateApiClient: state name -> schema registered for it
    requests,    \* requests the StateApiClient has been sent, in order
    handles,     \* ValueState / ListState objects that have been constructed
    declared,    \* history: method, state name -> schema of the first declaration
    issued,      \* history: last update/remove issued on (handle, key)
    last         \* the most recent call and its outcome

vars == <<handle, phase, boundKey, registered, requests, handles, declared, issued, last>>

----------------------------------------------------------------------------
\* Bounds of the model

NumValues == 2
MaxRequests == 2

Values == 1..NumValues
Keys == {"A", "B"}
Names == {"count", "events"}
ValidSchemas == {"int", "string"}
Schemas == ValidSchemas \cup {"malformed"}

\* the sequences a ListState is updated with: no, one or two different values
ListValues ==
    {<<>>} \cup {<<v>> : v \in Values}
           \cup {<<p[1], p[2]>> : p \in {q \in Values \X Values : q[1] # q[2]}}

\* Python values, tagged with their type
PyNone == [t |-> "None"]
PyBool(b) == [t |-> "bool", bool |-> b]
PyInt(i) == [t |-> "int", int |-> i]
PyList(s) == [t |-> "list", list |-> s]
PyObj(o) == [t |-> "object", object |-> o]
\* the outcome of a call that raised instead of returning
NoReturn == [t |-> "raised"]

NoKey == "NoKey"
NoSchema == "NoSchema"
NoError == "NoError"

\* history values of a (handle, key): never written, removed, or the value of
\* the last update (over: that update replaced a value that was there)
Never == [t |-> "never"]
Removed == [t |-> "removed"]
Written(value, over) == [t |-> "written", v |-> value, over |-> over]

\* the one StateApiClient of the task
TheClient == "state_api_client"

----------------------------------------------------------------------------
\* ValueState (stateful_processor.py 29-46): every method body is `pass`

\* a constructor that also stores the key bound when the object is made
ValueState_init_KeyBound(state_api_client, state_name) ==
    [cls |-> "ValueState", state_api_client |-> state_api_client, state_name |-> state_name,
     key |-> boundKey]

ValueState_init(state_api_client, state_name) ==
    [cls |-> "ValueState", state_api_client |-> state_api_client, state_name |-> state_name]

ValueState_exists(self) == PyNone

\* a get that serves the value written under whichever key wrote one
ValueState_get_Shared(self) ==
    IF \E k \in Keys : issued[self][k].t = "written"
    THEN issued[self][CHOOSE k \in Keys : issued[self][k].t = "written"].v
    ELSE PyNone

ValueState_get(self) == PyNone

ValueState_update(self, new_value) == PyNone

ValueState_remove(self) == PyNone

----------------------------------------------------------------------------
\* ListState (stateful_processor.py 49-66): every method body is `pass`

\* a constructor whose two assignments are crossed
ListState_init_Crossed(state_api_client, state_name) ==
    [cls |-> "ListState", state_api_client |-> state_name, state_name |-> state_api_client]

ListState_init(state_api_client, state_name) ==
    [cls |-> "ListState", state_api_client |-> state_api_client, state_name |-> state_name]

ListState_exists(self) == PyNone

ListState_get(self) == PyNone

ListState_update(self, new_value) == PyNone

ListState_remove(self) == PyNone

AllHandles ==
    {ValueState_init(TheClient, n) : n \in Names} \cup {ListState_init(TheClient, n) : n \in Names}

StateOps == {"exists", "get", "update", "remove"}

----------------------------------------------------------------------------
\* StateApiClient (state_api_client.py, imported at stateful_processor.py 21):
\* registration of a list state, as the design document describes it

StateApiClient_getListState(state_name, schema) ==
    IF phase = "Closed" THEN "HandleClosed"
    ELSE IF schema \notin ValidSchemas THEN "InvalidSchema"
    ELSE IF registered[state_name] \notin {NoSchema, schema} THEN "SchemaConflict"
    ELSE NoError

----------------------------------------------------------------------------
\* The record of a call: who was called, with what, in which context, what
\* the history said before it (prior), and what came back (ret) or was raised

Call(op, self, arg, prior, ret, exc) ==
    [op |-> op, self |-> self, arg |-> arg, key |-> boundKey, phase |-> phase,
     prior |-> prior, ret |-> ret, exc |-> exc]

NoCall == [op |-> "none", self |-> [cls |-> "none"], arg |-> PyNone, key |-> NoKey,
           phase |-> "Uninitialized", prior |-> Never, ret |-> PyNone, exc |-> NoError]

Decl(state_name, schema) == [t |-> "decl", state_name |-> state_name, schema |-> schema]

\* the history of (handle, key), as seen by a call made now
Prior(self) == IF boundKey = NoKey THEN [t |-> "unbound"] ELSE issued[self][boundKey]

Issue(self, value) ==
    IF boundKey = NoKey THEN issued
    ELSE [issued EXCEPT ![self][boundKey] = value]

Methods == {"getValueState", "getListState"}

\* the first declaration of a name, through a method, with a schema the backend accepts
Declare(method, state_name, schema) ==
    IF declared[method][state_name] = NoSchema /\ schema \in ValidSchemas /\ phase # "Closed"
    THEN [declared EXCEPT ![method][state_name] = schema]
    ELSE declared

Declared(method, state_name) == [t |-> "declared", schema |-> declared[method][state_name]]

\* StatefulProcessorHandle.__init__ (stateful_processor.py 70-73)
StatefulProcessorHandle_init(state_api_client) ==
    [cls |-> "StatefulProcessorHandle", state_api_client |-> state_api_client]

TheHandle == StatefulProcessorHandle_init(TheClient)

Init ==
    /\ handle = TheHandle
    /\ phase = "Uninitialized"
    /\ boundKey = NoKey
    /\ registered = [n \in Names |-> NoSchema]
    /\ requests = <<>>
    /\ handles = {}
    /\ declared = [m \in Methods |-> [n \in Names |-> NoSchema]]
    /\ issued = [h \in AllHandles |-> [k \in Keys |-> Never]]
    /\ last = NoCall

----------------------------------------------------------------------------
\* StatefulProcessorHandle (stateful_processor.py 69-80)

\* getValueState has an empty body: it sends nothing and returns None
GetValueState(state_name, schema) ==
    /\ last' = Call("getValueState", handle, Decl(state_name, schema),
                    Declared("getValueState", state_name), PyNone, NoError)
    /\ declared' = Declare("getValueState", state_name, schema)
    /\ UNCHANGED <<handle, phase, boundKey, registered, requests, handles, issued>>

\* a getListState that catches the client's exception and returns a ListState anyway
GetListState_Swallow(state_name, schema) ==
    /\ Len(requests) < MaxRequests
    /\ requests' = Append(requests,
           [method |-> "getListState", state_name |-> state_name, schema |-> schema])
    /\ LET exc == StateApiClient_getListState(state_name, schema)
           new == ListState_init(handle.state_api_client, state_name)
       IN  /\ registered' = IF exc = NoError
                            THEN [registered EXCEPT ![state_name] = schema]
                            ELSE registered
           /\ handles' = handles \cup {new}
           /\ last' = Call("getListState", handle, Decl(state_name, schema),
                           Declared("getListState", state_name), PyObj(new), NoError)
    /\ declared' = Declare("getListState", state_name, schema)
    /\ UNCHANGED <<handle, phase, boundKey, issued>>

\* getListState sends the registration to the client, then constructs a ListState;
\* an exception of the client propagates and nothing is constructed
GetListState(state_name, schema) ==
    /\ Len(requests) < MaxRequests
    /\ requests' = Append(requests,
           [method |-> "getListState", state_name |-> state_name, schema |-> schema])
    /\ LET exc == StateApiClient_getListState(state_name, schema)
           new == ListState_init(handle.state_api_client, state_name)
           prior == Declared("getListState", state_name)
       IN  IF exc = NoError
           THEN /\ registered' = [registered EXCEPT ![state_name] = schema]
                /\ handles' = handles \cup {new}
                /\ last' = Call("getListState", handle, Decl(state_name, schema),
                                prior, PyObj(new), NoError)
           ELSE /\ UNCHANGED <<registered, handles>>
                /\ last' = Call("getListState", handle, Decl(state_name, schema),
                                prior, NoReturn, exc)
    /\ declared' = Declare("getListState", state_name, schema)
    /\ UNCHANGED <<handle, phase, boundKey, issued>>

\* getValueState returns no object: a ValueState comes from its constructor only
NewValueState(state_name) ==
    /\ handles' = handles \cup {ValueState_init(handle.state_api_client, state_name)}
    /\ UNCHANGED <<handle, phase, boundKey, registered, requests, declared, issued, last>>

----------------------------------------------------------------------------
\* Calls on a ValueState

ValueStateExists(self) ==
    /\ self \in handles /\ self.cls = "ValueState"
    /\ last' = Call("exists", self, PyNone, Prior(self), ValueState_exists(self), NoError)
    /\ UNCHANGED <<handle, phase, boundKey, registered, requests, handles, declared, issued>>

ValueStateGet(self) ==
    /\ self \in handles /\ self.cls = "ValueState"
    /\ last' = Call("get", self, PyNone, Prior(self), ValueState_get(self), NoError)
    /\ UNCHANGED <<handle, phase, boundKey, registered, requests, handles, declared, issued>>

\* an update that assigns to the object's name instead of sending the value
ValueStateUpdate_Rebind(self, new_value) ==
    /\ self \in handles /\ self.cls = "ValueState"
    /\ last' = Call("update", self, PyInt(new_value), Prior(self),
                    ValueState_update(self, PyInt(new_value)), NoError)
    /\ issued' = Issue(self, Written(PyInt(new_value), Prior(self).t = "written"))
    /\ handles' = (handles \ {self}) \cup {[self EXCEPT !.state_name = "new_value"]}
    /\ UNCHANGED <<handle, phase, boundKey, registered, requests, declared>>

ValueStateUpdate(self, new_value) ==
    /\ self \in handles /\ self.cls = "ValueState"
    /\ last' = Call("update", self, PyInt(new_value), Prior(self),
                    ValueState_update(self, PyInt(new_value)), NoError)
    /\ issued' = Issue(self, Written(PyInt(new_value), Prior(self).t = "written"))
    /\ UNCHANGED <<handle, phase, boundKey, registered, requests, handles, declared>>

ValueStateRemove(self) ==
    /\ self \in handles /\ self.cls = "ValueState"
    /\ last' = Call("remove", self, PyNone, Prior(self), ValueState_remove(self), NoError)
    /\ issued' = Issue(self, Removed)
    /\ UNCHANGED <<handle, phase, boundKey, registered, requests, handles, declared>>

----------------------------------------------------------------------------
\* Calls on a ListState

ListStateExists(self) ==
    /\ self \in handles /\ self.cls = "ListState"
    /\ last' = Call("exists", self, PyNone, Prior(self), ListState_exists(self), NoError)
    /\ UNCHANGED <<handle, phase, boundKey, registered, requests, handles, declared, issued>>

ListStateGet(self) ==
    /\ self \in handles /\ self.cls = "ListState"
    /\ last' = Call("get", self, PyNone, Prior(self), ListState_get(self), NoError)
    /\ UNCHANGED <<handle, phase, boundKey, registered, requests, handles, declared, issued>>

ListStateUpdate(self, new_value) ==
    /\ self \in handles /\ self.cls = "ListState"
    /\ last' = Call("update", self, PyList(new_value), Prior(self),
                    ListState_update(self, PyList(new_value)), NoError)
    /\ issued' = Issue(self, Written(PyList(new_value), Prior(self).t = "written"))
    /\ UNCHANGED <<handle, phase, boundKey, registered, requests, handles, declared>>

ListStateRemove(self) ==
    /\ self \in handles /\ self.cls = "ListState"
    /\ last' = Call("remove", self, PyNone, Prior(self), ListState_remove(self), NoError)
    /\ issued' = Issue(self, Removed)
    /\ UNCHANGED <<handle, phase, boundKey, registered, requests, handles, declared>>

----------------------------------------------------------------------------
\* StatefulProcessor (stateful_processor.py 83-97): the engine calls init once,
\* handleInputRows once per key with the key bound, and close once

ProcessorInit ==
    /\ phase = "Uninitialized"
    /\ phase' = "Initialized"
    /\ UNCHANGED <<handle, boundKey, registered, requests, handles, declared, issued, last>>

HandleInputRowsBegin(key) ==
    /\ phase = "Initialized" /\ boundKey = NoKey
    /\ boundKey' = key
    /\ UNCHANGED <<handle, phase, registered, requests, handles, declared, issued, last>>

HandleInputRowsEnd ==
    /\ phase = "Initialized" /\ boundKey # NoKey
    /\ boundKey' = NoKey
    /\ UNCHANGED <<handle, phase, registered, requests, handles, declared, issued, last>>

ProcessorClose ==
    /\ phase = "Initialized" /\ boundKey = NoKey
    /\ phase' = "Closed"
    /\ UNCHANGED <<handle, boundKey, registered, requests, handles, declared, issued, last>>

----------------------------------------------------------------------------
\* The declarations of a task and its lifecycle
NextDeclare ==
    \/ \E n \in Names, s \in Schemas : GetValueState(n, s)
    \/ \E n \in Names, s \in Schemas : GetListState(n, s)
    \/ \E n \in Names : NewValueState(n)
    \/ ProcessorInit
    \/ \E k \in Keys : HandleInputRowsBegin(k)
    \/ HandleInputRowsEnd
    \/ ProcessorClose

SpecDeclare == Init /\ [][NextDeclare]_vars

\* The list-state declarations of a task and its lifecycle
NextRegister ==
    \/ \E n \in Names, s \in Schemas : GetListState(n, s)
    \/ ProcessorInit
    \/ \E k \in Keys : HandleInputRowsBegin(k)
    \/ HandleInputRowsEnd
    \/ ProcessorClose

SpecRegister == Init /\ [][NextRegister]_vars

\* The state operations of an initialized task on the variable it declared
NextOperate ==
    \/ \E h \in AllHandles : ValueStateExists(h)
    \/ \E h \in AllHandles : ValueStateGet(h)
    \/ \E h \in AllHandles, v \in Values : ValueStateUpdate(h, v)
    \/ \E h \in AllHandles : ValueStateRemove(h)
    \/ \E h \in AllHandles : ListStateExists(h)
    \/ \E h \in AllHandles : ListStateGet(h)
    \/ \E h \in AllHandles, v \in ListValues : ListStateUpdate(h, v)
    \/ \E h \in AllHandles : ListStateRemove(h)
    \/ \E k \in Keys : HandleInputRowsBegin(k)
    \/ HandleInputRowsEnd
    \/ ProcessorClose

\* after init: a processor that constructed ValueState "count", or one that
\* declared ListState "events" with getListState("events", "string")
InitOperate ==
    /\ handle = TheHandle
    /\ phase = "Initialized"
    /\ boundKey = NoKey
    /\ issued = [h \in AllHandles |-> [k \in Keys |-> Never]]
    /\ \/ /\ handles = {ValueState_init(TheClient, "count")}
          /\ registered = [n \in Names |-> NoSchema]
          /\ requests = <<>>
          /\ declared = [m \in Methods |-> [n \in Names |-> NoSchema]]
          /\ last = NoCall
       \/ /\ handles = {ListState_init(TheClient, "events")}
          /\ registered = [n \in Names |-> IF n = "events" THEN "string" ELSE NoSchema]
          /\ requests = <<[method |-> "getListState", state_name |-> "events",
                           schema |-> "string"]>>
          /\ declared = [m \in Methods |-> [n \in Names |->
                IF m = "getListState" /\ n = "events" THEN "string" ELSE NoSchema]]
          /\ last = [op |-> "getListState", self |-> TheHandle,
                     arg |-> Decl("events", "string"), key |-> NoKey,
                     phase |-> "Uninitialized",
                     prior |-> [t |-> "declared", schema |-> NoSchema],
                     ret |-> PyObj(ListState_init(TheClient, "events")), exc |-> NoError]

SpecOperate == InitOperate /\ [][NextOperate]_vars

\* no update or remove has been issued yet
Pristine == issued = [h \in AllHandles |-> [k \in Keys |-> Never]]

\* the objects and registrations are those init made (the ones InitOperate
\* starts from), and no other name has been declared since
TaskDeclared ==
    /\ \/ /\ handles = {ValueState_init(TheClient, "count")}
          /\ requests = <<>>
       \/ /\ handles = {ListState_init(TheClient, "events")}
          /\ requests = <<[method |-> "getListState", state_name |-> "events",
                           schema |-> "string"]>>
    /\ \A n \in Names : declared["getValueState"][n] # NoSchema
          => \E h \in handles : h.state_name = n

\* A task that operates on the variable init declared, and that may declare
\* again, or declare more, before its first write; it stops operating once it
\* has declared another name or sent a further registration
NextBindings ==
    \/ TaskDeclared /\ NextOperate
    \/ Pristine /\ \E n \in Names, s \in Schemas : GetValueState(n, s)
    \/ Pristine /\ \E n \in Names, s \in Schemas : GetListState(n, s)

SpecBindings == InitOperate /\ [][NextBindings]_vars

Next == NextDeclare \/ NextOperate

Spec == Init /\ [][Next]_vars

----------------------------------------------------------------------------
\* Properties

LastIsStateOp(cls, op) == last.op = op /\ last.self.cls = cls

\* the registration requests sent for (state_name, schema)
Sent(state_name, schema) ==
    {i \in DOMAIN requests : requests[i].state_name = state_name /\ requests[i].schema = schema}

\* C1: on a ValueState, a get() that follows update(v) under the same bound
\* key, with no update or remove in between, returns v
C1_GetReturnsUpdated ==
    (LastIsStateOp("ValueState", "get") /\ last.key # NoKey /\ last.prior.t = "written")
        => last.ret = last.prior.v

\* C2: on a ValueState with a bound key, exists() after remove() returns False,
\* and get() after remove() or before any update() reports absence (None)
C2_AbsentAfterRemove ==
    /\ (LastIsStateOp("ValueState", "exists") /\ last.key # NoKey /\ last.prior.t = "removed")
          => last.ret = PyBool(FALSE)
    /\ (LastIsStateOp("ValueState", "get") /\ last.key # NoKey
          /\ last.prior.t \in {"removed", "never"})
          => last.ret = PyNone

\* C3: on a ListState, every get() that follows update(seq) under the same
\* bound key yields seq, in order and from its first element
C3_ListGetYieldsUpdated ==
    (LastIsStateOp("ListState", "get") /\ last.key # NoKey /\ last.prior.t = "written")
        => last.ret = last.prior.v

\* what exists()/get() under a key may show, given only that key's own history
Visible(prior) ==
    IF prior.t = "written"
    THEN {PyNone, PyBool(FALSE), PyBool(TRUE), prior.v}
    ELSE {PyNone, PyBool(FALSE)}

\* C4: what exists()/get() return under the bound key is decided by the updates
\* and removes issued under that key: a value written under another key is
\* never shown
C4_KeyIsolation ==
    (last.op \in {"exists", "get"} /\ last.key # NoKey) => last.ret \in Visible(last.prior)

\* C4 witness: a read under key B of a variable written under key A only
C4_Witness ==
    /\ last.op = "get" /\ last.key = "B" /\ last.prior.t = "never"
    /\ issued[last.self]["A"].t = "written"

\* the object a declaration method is to return for a name
Handle(method, state_name) ==
    IF method = "getValueState"
    THEN ValueState_init(TheClient, state_name)
    ELSE ListState_init(TheClient, state_name)

\* C5: declaring a name again through the same method succeeds and returns an
\* equivalent handle when the schema is the one first declared, and fails with
\* SchemaConflict, returning nothing, when the schema differs
C5_DeclareTwice ==
    (last.op \in Methods /\ last.phase # "Closed" /\ last.prior.schema # NoSchema
        /\ last.arg.schema \in ValidSchemas)
        => IF last.arg.schema = last.prior.schema
           THEN last.exc = NoError /\ last.ret = PyObj(Handle(last.op, last.arg.state_name))
           ELSE last.exc = "SchemaConflict" /\ last.ret = NoReturn

\* C6: a state operation called after close() fails with HandleClosed
C6_ClosedRejects ==
    (last.op \in StateOps /\ last.phase = "Closed") => last.exc = "HandleClosed"

\* C7: a getValueState(name, schema) that returns has registered (name, schema)
\* with the client and returns a ValueState bound to name and to the client
C7_GetValueStateReturnsHandle ==
    (last.op = "getValueState" /\ last.exc = NoError)
        => /\ last.ret = PyObj(ValueState_init(TheClient, last.arg.state_name))
           /\ Sent(last.arg.state_name, last.arg.schema) # {}

\* C8: a registered (name, schema) has been sent to the client exactly once,
\* however often it was declared
C8_RegisteredOnce ==
    \A n \in Names : registered[n] # NoSchema => Cardinality(Sent(n, registered[n])) = 1

\* C9: a state operation called while no key is bound fails with InvalidKeyState
C9_UnboundRejects ==
    (last.op \in StateOps /\ last.key = NoKey /\ last.phase # "Closed")
        => last.exc = "InvalidKeyState"

\* C10: update replaces: after update(a) then update(b) under one key, get()
\* returns exactly b; under a key never updated, exists() returns False
C10_UpdateReplaces ==
    /\ (last.op = "get" /\ last.key # NoKey /\ last.prior.t = "written" /\ last.prior.over)
          => last.ret = last.prior.v
    /\ (last.op = "exists" /\ last.key # NoKey /\ last.prior.t = "never")
          => last.ret = PyBool(FALSE)


\* C11: on a ListState with a bound key, after remove() (whether or not a
\* sequence was stored) exists() returns False and get() yields the empty
\* sequence, and remove() itself raises nothing
C11_ListRemoveClears ==
    /\ (LastIsStateOp("ListState", "exists") /\ last.key # NoKey /\ last.prior.t = "removed")
          => last.ret = PyBool(FALSE)
    /\ (LastIsStateOp("ListState", "get") /\ last.key # NoKey /\ last.prior.t = "removed")
          => last.ret = PyList(<<>>)
    /\ LastIsStateOp("ListState", "remove") => last.exc = NoError

\* C12: a key is bound (handleInputRows runs) only between init and close, and
\* the declaration of a new variable after init has returned fails with
\* LateDeclaration
C12_Lifecycle ==
    /\ boundKey # NoKey => phase = "Initialized"
    /\ (last.op \in Methods /\ last.phase = "Initialized"
          /\ last.prior.schema = NoSchema /\ last.arg.schema \in ValidSchemas)
          => last.exc = "LateDeclaration"


C14_WriteReachesBackend ==
    (last.op \in {"update", "remove"} /\ last.key # NoKey /\ last.exc = NoError)
        => /\ Len(requests) > 0
           /\ requests[Len(requests)].method = last.op
           /\ requests[Len(requests)].state_name = last.self.state_name

\* the logical errors of the client's registration
LogicalErrors == {"SchemaConflict", "InvalidSchema"}

Registration(decl) ==
    [method |-> "getListState", state_name |-> decl.state_name, schema |-> decl.schema]

\* C15: a step that sends to the client is a getListState call that sends its
\* registration once; when the client answers it with a logical error, the call
\* raises that error, returns nothing and constructs no ListState
C15_LogicalErrorPropagates ==
    [][requests' # requests =>
          /\ last'.op = "getListState"
          /\ requests' = Append(requests, Registration(last'.arg))
          /\ LET exc == StateApiClient_getListState(last'.arg.state_name, last'.arg.schema)
             IN  exc \in LogicalErrors
                    => last'.exc = exc /\ last'.ret = NoReturn /\ handles' = handles]_vars

\* C15 witness: a getListState call has raised SchemaConflict
C15_Witness ==
    /\ last.op = "getListState" /\ last.exc = "SchemaConflict" /\ last.ret = NoReturn
    /\ Len(requests) > 0 /\ requests[Len(requests)] = Registration(last.arg)

\* the backend holds something for a history: a value, or a non-empty sequence
Holds(prior) ==
    /\ prior.t = "written"
    /\ prior.v.t = "list" => prior.v.list # <<>>

\* C16: exists() under a bound key returns the boolean that says whether the
\* backend holds a value (a non-empty sequence) for the name and the key
C16_ExistsIsBoolean ==
    (last.op = "exists" /\ last.key # NoKey) => last.ret = PyBool(Holds(last.prior))

\* C17: a getListState call that returns has sent exactly its own registration
\* to the handle's client, and returns a ListState bound to the name passed in
\* and to the client of the handle
C17_GetListStateBinds ==
    [][(last'.op = "getListState" /\ last'.exc = NoError
          /\ (last' # last \/ requests' # requests))
          => /\ requests' = Append(requests, Registration(last'.arg))
             /\ last'.ret.t = "object"
             /\ last'.ret.object.cls = "ListState"
             /\ last'.ret.object.state_name = last'.arg.state_name
             /\ last'.ret.object.state_api_client = handle.state_api_client
             /\ last'.ret.object \in handles']_vars

\* C17 witness: getListState("events", ...) has returned a ListState
C17_Witness ==
    /\ last.op = "getListState" /\ last.exc = NoError
    /\ last.arg.state_name = "events"
    /\ last.ret.t = "object" /\ last.ret.object \in handles
    /\ Len(requests) > 0 /\ requests[Len(requests)] = Registration(last.arg)


\* C18: no call changes a binding: the StatefulProcessorHandle keeps its client,
\* and every ValueState / ListState that exists keeps its class, name and client
C18_BindingsImmutable ==
    [][handle' = handle /\ handles \subseteq handles']_vars

\* C18 witness: an update was made through an object whose name was declared
\* again with getValueState before, and the object is still what it was
C18_Witness ==
    /\ last.op = "update" /\ last.key # NoKey
    /\ last.self \in handles
    /\ declared["getValueState"][last.self.state_name] # NoSchema
    /\ handle.state_api_client = last.self.state_api_client

====
